---- MODULE Spec2Model ----
(***************************************************************************)
(* Model of src/app.js: the Express handlers of the Fennec FC record       *)
(* manager over three MongoDB collections (players, teams, tournaments).   *)
(*                                                                         *)
(* A handler runs until its next `await` of a database call; the database  *)
(* executes one call at a time, so a handler with two database calls (a    *)
(* lookup and a write) is two steps, and requests interleave between them. *)
(* A handler with one database call is one step.                           *)
(*                                                                         *)
(* Library behaviour assumed (mongoose 6 or later, MongoDB):               *)
(*  - `unique: true` (line 37) is a unique index: an insert or update that *)
(*    would give two documents the same jerseyNumber fails (E11000);       *)
(*  - keys whose value is `undefined` are stripped from an update;         *)
(*  - `required` fails a save when the field is undefined; update          *)
(*    validators (runValidators) run before the command is sent;           *)
(*  - find({_id: {$in: ids}}) returns each matching document once;         *)
(*  - populate of an array drops the ids that resolve to no document.      *)
(*                                                                         *)
(* Fields: `name` stands for the required scalar fields of a schema, which *)
(* the handlers copy through identically (player: name, position, age,     *)
(* nationality; team: name, formation; tournament: name, startDate,        *)
(* endDate, location).  createdAt is never written by a handler and is     *)
(* left out.  A JavaScript value that may be undefined is a sequence of    *)
(* length 0 (undefined) or 1 (the value).                                  *)
(***************************************************************************)
EXTENDS Integers, Sequences, FiniteSets, TLC

\* Bounds of the model.
MaxPlayers == 2
MaxTeams == 1
MaxTournaments == 1
MaxJersey == 1
MaxList == 2
NumSlots == 2

VARIABLES players, teams, tournaments,
          nextPlayer, nextTeam, nextTournament,
          reqs, resp

vars == <<players, teams, tournaments, nextPlayer, nextTeam, nextTournament, reqs, resp>>

stores == <<players, teams, tournaments, nextPlayer, nextTeam, nextTournament>>

----
\* JavaScript values.

Undefined == <<>>

Opt(S) == {Undefined} \cup {<<v>> : v \in S}

Defined(x) == x # Undefined

Val(x) == x[1]

\* x || d
OrElse(x, d) == IF Defined(x) THEN Val(x) ELSE d

\* One key of an update document: a key whose value is undefined is stripped,
\* so the stored value stays.
SetField(x, old) == IF Defined(x) THEN Val(x) ELSE old

Range(s) == {s[i] : i \in 1..Len(s)}

SeqsUpTo(S, n) == UNION {[1..k -> S] : k \in 0..n}

Jerseys == 0..MaxJersey

Slots == 1..NumSlots

\* A well-formed id that no document ever has.
GhostId == 0

----
\* Requests in flight and the last response sent.

IdleReq == [pc |-> "idle"]

Pending(pc, id, body) == [pc |-> pc, id |-> id, body |-> body]

InFlight(pc) == Cardinality({s \in Slots : reqs[s].pc = pc})

\* The status and the JSON body: { error: message } or the document.
Response(op, status, error, doc) ==
    [op |-> op, status |-> status, error |-> error, doc |-> doc]

NoResponse == [op |-> "none"]

----
\* Player Store.

\* Request bodies: a create with name n1 or no name, an update that may rename
\* to n2 and may clear isAvailable.
PlayerCreateBodies == [name : Opt({"n1"}), jerseyNumber : {<<j>> : j \in Jerseys}]

PlayerUpdateBodies == [name : Opt({"n2"}), jerseyNumber : Opt(Jerseys), isAvailable : Opt({FALSE})]

FindPlayerById(id) == {p \in players : p._id = id}

\* The lookup with the jersey number compared to the wrong field.
FindOneByJerseyAsId(jersey) == {p \in players : p._id = jersey}

\* Player.findOne({ jerseyNumber })
FindOneByJersey(jersey) == {p \in players : p.jerseyNumber = jersey}

FindOneByJerseyExcept(jersey, id) == {p \in players : p.jerseyNumber = jersey /\ p._id # id}

\* The schema without `unique: true`.
NoUniqueIndex(id, jersey) == TRUE

UniqueIndexAllows(id, jersey) == \A p \in players : p._id # id => p.jerseyNumber # jersey

NewPlayer(id, body) ==
    [_id |-> id, name |-> Val(body.name), jerseyNumber |-> Val(body.jerseyNumber), isAvailable |-> TRUE]

ApplyPlayerUpdate(old, body) ==
    [_id |-> old._id,
     name |-> SetField(body.name, old.name),
     jerseyNumber |-> SetField(body.jerseyNumber, old.jerseyNumber),
     isAvailable |-> SetField(body.isAvailable, old.isAvailable)]


\* POST /api/players, up to the uniqueness lookup.
CreatePlayerLookup(r, body) ==
    /\ reqs[r].pc = "idle"
    /\ nextPlayer + InFlight("createPlayer.save") < MaxPlayers
    /\ IF FindOneByJersey(Val(body.jerseyNumber)) # {}
       THEN /\ resp' = Response("createPlayer", 400, "Jersey number already taken", <<>>)
            /\ UNCHANGED reqs
       ELSE /\ reqs' = [reqs EXCEPT ![r] = Pending("createPlayer.save", GhostId, body)]
            /\ UNCHANGED resp
    /\ UNCHANGED stores

\* POST /api/players, the save.
CreatePlayerSave(r) ==
    /\ reqs[r].pc = "createPlayer.save"
    /\ LET body == reqs[r].body
           id == nextPlayer + 1
       IN IF ~Defined(body.name)
          THEN /\ resp' = Response("createPlayer", 400, "Validation failed", <<>>)
               /\ UNCHANGED <<players, nextPlayer>>
          ELSE IF ~UniqueIndexAllows(id, Val(body.jerseyNumber))
          THEN /\ resp' = Response("createPlayer", 400, "E11000 duplicate key error", <<>>)
               /\ UNCHANGED <<players, nextPlayer>>
          ELSE /\ players' = players \cup {NewPlayer(id, body)}
               /\ nextPlayer' = id
               /\ resp' = Response("createPlayer", 201, "", <<NewPlayer(id, body)>>)
    /\ reqs' = [reqs EXCEPT ![r] = IdleReq]
    /\ UNCHANGED <<teams, tournaments, nextTeam, nextTournament>>

\* The test as jerseyNumber !== undefined.
JerseyDefined(body) == Defined(body.jerseyNumber)

\* if (jerseyNumber): undefined and 0 are falsy.
JerseyTruthy(body) == Defined(body.jerseyNumber) /\ Val(body.jerseyNumber) # 0

\* PUT /api/players/:id, up to the uniqueness lookup.
UpdatePlayerLookup(r, id, body) ==
    /\ reqs[r].pc = "idle"
    /\ IF JerseyTruthy(body) /\ FindOneByJerseyExcept(Val(body.jerseyNumber), id) # {}
       THEN /\ resp' = Response("updatePlayer", 400, "Jersey number already taken", <<>>)
            /\ UNCHANGED reqs
       ELSE /\ reqs' = [reqs EXCEPT ![r] = Pending("updatePlayer.write", id, body)]
            /\ UNCHANGED resp
    /\ UNCHANGED stores

\* PUT /api/players/:id, findByIdAndUpdate.
UpdatePlayerWrite(r) ==
    /\ reqs[r].pc = "updatePlayer.write"
    /\ LET body == reqs[r].body
           id == reqs[r].id
           found == FindPlayerById(id)
       IN IF found = {}
          THEN /\ resp' = Response("updatePlayer", 404, "Player not found", <<>>)
               /\ UNCHANGED players
          ELSE LET old == CHOOSE p \in found : TRUE
                   new == ApplyPlayerUpdate(old, body)
               IN IF ~UniqueIndexAllows(id, new.jerseyNumber)
                  THEN /\ resp' = Response("updatePlayer", 400, "E11000 duplicate key error", <<>>)
                       /\ UNCHANGED players
                  ELSE /\ players' = (players \ {old}) \cup {new}
                       /\ resp' = Response("updatePlayer", 200, "", <<new>>)
    /\ reqs' = [reqs EXCEPT ![r] = IdleReq]
    /\ UNCHANGED <<teams, tournaments, nextPlayer, nextTeam, nextTournament>>

\* A delete that also takes the id out of every team's players list.
DeletePlayerCascade(id) ==
    /\ IF FindPlayerById(id) = {}
       THEN /\ resp' = Response("deletePlayer", 404, "Player not found", <<>>)
            /\ UNCHANGED <<players, teams>>
       ELSE /\ players' = players \ FindPlayerById(id)
            /\ teams' = {[t EXCEPT !.players = SelectSeq(t.players, LAMBDA i : i # id)] : t \in teams}
            /\ resp' = Response("deletePlayer", 200, "", <<>>)
    /\ UNCHANGED <<tournaments, nextPlayer, nextTeam, nextTournament, reqs>>

\* DELETE /api/players/:id.
DeletePlayer(id) ==
    /\ IF FindPlayerById(id) = {}
       THEN /\ resp' = Response("deletePlayer", 404, "Player not found", <<>>)
            /\ UNCHANGED players
       ELSE /\ players' = players \ FindPlayerById(id)
            /\ resp' = Response("deletePlayer", 200, "", <<>>)
    /\ UNCHANGED <<teams, tournaments, nextPlayer, nextTeam, nextTournament, reqs>>

PlayerIds == GhostId..nextPlayer

----
\* Team Store.

TeamIds == GhostId..nextTeam

TeamCreateBodies == [name : Opt({"n1"}), players : Opt(SeqsUpTo(PlayerIds, MaxList))]

TeamUpdateBodies == [name : Opt({"n2"}), players : Opt(SeqsUpTo(PlayerIds, MaxList))]

FindTeamById(id) == {t \in teams : t._id = id}

\* Player.find({ _id: { $in: ids } }): every matching document, once.
FindPlayersIn(ids) == {p \in players : p._id \in Range(ids)}

\* players && players.length > 0
ListTruthy(list) == Defined(list) /\ Len(Val(list)) > 0

\* The check refusing a list only when none of its ids resolves.
PlayersRejectedIfNoneFound(list) ==
    ListTruthy(list) /\ Cardinality(FindPlayersIn(Val(list))) = 0

\* The check of the players list, on create and on update.
PlayersRejected(list) ==
    ListTruthy(list) /\ Cardinality(FindPlayersIn(Val(list))) # Len(Val(list))

\* populate('players'): the documents the ids resolve to, in the list's order;
\* an id that resolves to nothing is dropped.
Populate(ids) ==
    LET kept == SelectSeq(ids, LAMBDA i : FindPlayerById(i) # {})
    IN [k \in 1..Len(kept) |-> CHOOSE p \in players : p._id = kept[k]]

PopulatedTeam(t) == [_id |-> t._id, name |-> t.name, players |-> Populate(t.players)]

NewTeam(id, body) == [_id |-> id, name |-> Val(body.name), players |-> OrElse(body.players, <<>>)]

ApplyTeamUpdate(old, body) ==
    [_id |-> old._id,
     name |-> SetField(body.name, old.name),
     players |-> OrElse(body.players, <<>>)]

\* POST /api/teams, up to the check of the players list.
CreateTeamValidate(r, body) ==
    /\ reqs[r].pc = "idle"
    /\ nextTeam + InFlight("createTeam.save") < MaxTeams
    /\ IF PlayersRejected(body.players)
       THEN /\ resp' = Response("createTeam", 400, "One or more player IDs are invalid", <<>>)
            /\ UNCHANGED reqs
       ELSE /\ reqs' = [reqs EXCEPT ![r] = Pending("createTeam.save", GhostId, body)]
            /\ UNCHANGED resp
    /\ UNCHANGED stores

\* POST /api/teams, the save and the populate of the response.
CreateTeamSave(r) ==
    /\ reqs[r].pc = "createTeam.save"
    /\ LET body == reqs[r].body
           id == nextTeam + 1
       IN IF ~Defined(body.name)
          THEN /\ resp' = Response("createTeam", 400, "Validation failed", <<>>)
               /\ UNCHANGED <<teams, nextTeam>>
          ELSE /\ teams' = teams \cup {NewTeam(id, body)}
               /\ nextTeam' = id
               /\ resp' = Response("createTeam", 201, "", <<PopulatedTeam(NewTeam(id, body))>>)
    /\ reqs' = [reqs EXCEPT ![r] = IdleReq]
    /\ UNCHANGED <<players, tournaments, nextPlayer, nextTournament>>

\* PUT /api/teams/:id, up to the check of the players list.
UpdateTeamValidate(r, id, body) ==
    /\ reqs[r].pc = "idle"
    /\ IF PlayersRejected(body.players)
       THEN /\ resp' = Response("updateTeam", 400, "One or more player IDs are invalid", <<>>)
            /\ UNCHANGED reqs
       ELSE /\ reqs' = [reqs EXCEPT ![r] = Pending("updateTeam.write", id, body)]
            /\ UNCHANGED resp
    /\ UNCHANGED stores

\* PUT /api/teams/:id, findByIdAndUpdate and the populate of the response.
UpdateTeamWrite(r) ==
    /\ reqs[r].pc = "updateTeam.write"
    /\ LET body == reqs[r].body
           id == reqs[r].id
           found == FindTeamById(id)
       IN IF found = {}
          THEN /\ resp' = Response("updateTeam", 404, "Team not found", <<>>)
               /\ UNCHANGED teams
          ELSE LET old == CHOOSE t \in found : TRUE
                   new == ApplyTeamUpdate(old, body)
               IN /\ teams' = (teams \ {old}) \cup {new}
                  /\ resp' = Response("updateTeam", 200, "", <<PopulatedTeam(new)>>)
    /\ reqs' = [reqs EXCEPT ![r] = IdleReq]
    /\ UNCHANGED <<players, tournaments, nextPlayer, nextTeam, nextTournament>>

\* DELETE /api/teams/:id.
DeleteTeam(id) ==
    /\ IF FindTeamById(id) = {}
       THEN /\ resp' = Response("deleteTeam", 404, "Team not found", <<>>)
            /\ UNCHANGED teams
       ELSE /\ teams' = teams \ FindTeamById(id)
            /\ resp' = Response("deleteTeam", 200, "", <<>>)
    /\ UNCHANGED <<players, tournaments, nextPlayer, nextTeam, nextTournament, reqs>>

\* GET /api/teams/:id: findById and populate, as one read of the database.
GetTeam(id) ==
    /\ IF FindTeamById(id) = {}
       THEN resp' = Response("getTeam", 404, "Team not found", <<>>)
       ELSE resp' = Response("getTeam", 200, "", <<PopulatedTeam(CHOOSE t \in FindTeamById(id) : TRUE)>>)
    /\ UNCHANGED <<stores, reqs>>

----
\* Tournament Store.

TournamentIds == GhostId..nextTournament

Statuses == {"upcoming", "ongoing", "completed"}

DefaultStatus == "upcoming"

DefaultMaxTeams == 16

\* A status outside the enum is a body a client may send.
BodyStatuses == Statuses \cup {"cancelled"}

\* Request bodies.  The create handler reads no status; a client may send one.
TournamentCreateBodies ==
    [name : Opt({"n1"}), teams : Opt(SeqsUpTo(TeamIds, MaxList)),
     maxTeams : Opt({1}), status : Opt({"completed"})]

TournamentUpdateBodies ==
    [name : Opt({"n2"}), teams : Opt(SeqsUpTo(TeamIds, MaxList)),
     maxTeams : {Undefined}, status : Opt(BodyStatuses)]

FindTournamentById(id) == {t \in tournaments : t._id = id}

\* Team.find({ _id: { $in: ids } }): every matching document, once.
FindTeamsIn(ids) == {t \in teams : t._id \in Range(ids)}

\* The check refusing a list only when none of its ids resolves.
TeamsRejectedIfNoneFound(list) ==
    ListTruthy(list) /\ Cardinality(FindTeamsIn(Val(list))) = 0

\* The check of the teams list, on create and on update.
TeamsRejected(list) ==
    ListTruthy(list) /\ Cardinality(FindTeamsIn(Val(list))) # Len(Val(list))

\* populate({ path: 'teams', populate: { path: 'players' } })
PopulateTeams(ids) ==
    LET kept == SelectSeq(ids, LAMBDA i : FindTeamById(i) # {})
    IN [k \in 1..Len(kept) |-> PopulatedTeam(CHOOSE t \in teams : t._id = kept[k])]

PopulatedTournament(t) ==
    [_id |-> t._id, name |-> t.name, teams |-> PopulateTeams(t.teams),
     maxTeams |-> t.maxTeams, status |-> t.status]

\* A create that also passes the body's status to the constructor.
NewTournamentWithStatus(id, body) ==
    [_id |-> id, name |-> Val(body.name), teams |-> OrElse(body.teams, <<>>),
     maxTeams |-> OrElse(body.maxTeams, DefaultMaxTeams), status |-> OrElse(body.status, DefaultStatus)]

\* new Tournament({ name, startDate, endDate, location, teams: teams || [], maxTeams })
NewTournament(id, body) ==
    [_id |-> id, name |-> Val(body.name), teams |-> OrElse(body.teams, <<>>),
     maxTeams |-> OrElse(body.maxTeams, DefaultMaxTeams), status |-> DefaultStatus]

\* An update that leaves the status of a completed tournament alone.
ApplyTournamentUpdateLocked(old, body) ==
    [_id |-> old._id,
     name |-> SetField(body.name, old.name),
     teams |-> OrElse(body.teams, <<>>),
     maxTeams |-> SetField(body.maxTeams, old.maxTeams),
     status |-> IF old.status = "completed" THEN old.status ELSE SetField(body.status, old.status)]

\* findByIdAndUpdate(id, { name, ..., teams: teams || [], maxTeams, status })
ApplyTournamentUpdate(old, body) ==
    [_id |-> old._id,
     name |-> SetField(body.name, old.name),
     teams |-> OrElse(body.teams, <<>>),
     maxTeams |-> SetField(body.maxTeams, old.maxTeams),
     status |-> SetField(body.status, old.status)]

\* runValidators: the enum of status.
StatusInvalid(body) == Defined(body.status) /\ Val(body.status) \notin Statuses

\* POST /api/tournaments, up to the check of the teams list.
CreateTournamentValidate(r, body) ==
    /\ reqs[r].pc = "idle"
    /\ nextTournament + InFlight("createTournament.save") < MaxTournaments
    /\ IF TeamsRejected(body.teams)
       THEN /\ resp' = Response("createTournament", 400, "One or more team IDs are invalid", <<>>)
            /\ UNCHANGED reqs
       ELSE /\ reqs' = [reqs EXCEPT ![r] = Pending("createTournament.save", GhostId, body)]
            /\ UNCHANGED resp
    /\ UNCHANGED stores

\* POST /api/tournaments, the save and the populate of the response.
CreateTournamentSave(r) ==
    /\ reqs[r].pc = "createTournament.save"
    /\ LET body == reqs[r].body
           id == nextTournament + 1
       IN IF ~Defined(body.name)
          THEN /\ resp' = Response("createTournament", 400, "Validation failed", <<>>)
               /\ UNCHANGED <<tournaments, nextTournament>>
          ELSE /\ tournaments' = tournaments \cup {NewTournament(id, body)}
               /\ nextTournament' = id
               /\ resp' = Response("createTournament", 201, "",
                                   <<PopulatedTournament(NewTournament(id, body))>>)
    /\ reqs' = [reqs EXCEPT ![r] = IdleReq]
    /\ UNCHANGED <<players, teams, nextPlayer, nextTeam>>

\* PUT /api/tournaments/:id, up to the check of the teams list.
UpdateTournamentValidate(r, id, body) ==
    /\ reqs[r].pc = "idle"
    /\ IF TeamsRejected(body.teams)
       THEN /\ resp' = Response("updateTournament", 400, "One or more team IDs are invalid", <<>>)
            /\ UNCHANGED reqs
       ELSE /\ reqs' = [reqs EXCEPT ![r] = Pending("updateTournament.write", id, body)]
            /\ UNCHANGED resp
    /\ UNCHANGED stores

\* PUT /api/tournaments/:id, findByIdAndUpdate and the populate of the response.
UpdateTournamentWrite(r) ==
    /\ reqs[r].pc = "updateTournament.write"
    /\ LET body == reqs[r].body
           id == reqs[r].id
           found == FindTournamentById(id)
       IN IF StatusInvalid(body)
          THEN /\ resp' = Response("updateTournament", 400, "Validation failed", <<>>)
               /\ UNCHANGED tournaments
          ELSE IF found = {}
          THEN /\ resp' = Response("updateTournament", 404, "Tournament not found", <<>>)
               /\ UNCHANGED tournaments
          ELSE LET old == CHOOSE t \in found : TRUE
                   new == ApplyTournamentUpdate(old, body)
               IN /\ tournaments' = (tournaments \ {old}) \cup {new}
                  /\ resp' = Response("updateTournament", 200, "", <<PopulatedTournament(new)>>)
    /\ reqs' = [reqs EXCEPT ![r] = IdleReq]
    /\ UNCHANGED <<players, teams, nextPlayer, nextTeam, nextTournament>>

\* DELETE /api/tournaments/:id.
DeleteTournament(id) ==
    /\ IF FindTournamentById(id) = {}
       THEN /\ resp' = Response("deleteTournament", 404, "Tournament not found", <<>>)
            /\ UNCHANGED tournaments
       ELSE /\ tournaments' = tournaments \ FindTournamentById(id)
            /\ resp' = Response("deleteTournament", 200, "", <<>>)
    /\ UNCHANGED <<players, teams, nextPlayer, nextTeam, nextTournament, reqs>>

\* GET /api/tournaments/:id.
GetTournament(id) ==
    /\ IF FindTournamentById(id) = {}
       THEN resp' = Response("getTournament", 404, "Tournament not found", <<>>)
       ELSE resp' = Response("getTournament", 200, "",
                             <<PopulatedTournament(CHOOSE t \in FindTournamentById(id) : TRUE)>>)
    /\ UNCHANGED <<stores, reqs>>

----
Init ==
    /\ players = {}
    /\ teams = {}
    /\ tournaments = {}
    /\ nextPlayer = 0
    /\ nextTeam = 0
    /\ nextTournament = 0
    /\ reqs = [s \in Slots |-> IdleReq]
    /\ resp = NoResponse

\* Clients of the Player Store only, with up to NumSlots requests between
\* their two database calls.
NextPlayers ==
    \/ \E r \in Slots, body \in PlayerCreateBodies : CreatePlayerLookup(r, body)
    \/ \E r \in Slots : CreatePlayerSave(r)
    \/ \E r \in Slots, id \in PlayerIds, body \in PlayerUpdateBodies : UpdatePlayerLookup(r, id, body)
    \/ \E r \in Slots : UpdatePlayerWrite(r)
    \/ \E id \in PlayerIds : DeletePlayer(id)

SpecPlayers == Init /\ [][NextPlayers]_vars

\* Clients that create and delete players and use the Team Store; one request
\* at a time is between its two database calls.
NextTeams ==
    \/ \E body \in PlayerCreateBodies : CreatePlayerLookup(1, body)
    \/ CreatePlayerSave(1)
    \/ \E id \in PlayerIds : DeletePlayer(id)
    \/ \E body \in TeamCreateBodies : CreateTeamValidate(1, body)
    \/ CreateTeamSave(1)
    \/ \E id \in TeamIds, body \in TeamUpdateBodies : UpdateTeamValidate(1, id, body)
    \/ UpdateTeamWrite(1)
    \/ \E id \in TeamIds : DeleteTeam(id)
    \/ \E id \in TeamIds : GetTeam(id)

SpecTeams == Init /\ [][NextTeams]_vars

\* Clients that create and delete teams and use the Tournament Store; one
\* request at a time is between its two database calls.
NextTournaments ==
    \/ \E body \in TeamCreateBodies : CreateTeamValidate(1, body)
    \/ CreateTeamSave(1)
    \/ \E id \in TeamIds : DeleteTeam(id)
    \/ \E body \in TournamentCreateBodies : CreateTournamentValidate(1, body)
    \/ CreateTournamentSave(1)
    \/ \E id \in TournamentIds, body \in TournamentUpdateBodies : UpdateTournamentValidate(1, id, body)
    \/ UpdateTournamentWrite(1)
    \/ \E id \in TournamentIds : DeleteTournament(id)
    \/ \E id \in TournamentIds : GetTournament(id)

SpecTournaments == Init /\ [][NextTournaments]_vars

\* Request bodies of the creates of the clients below.
PlainPlayerBodies == [name : {<<"n1">>}, jerseyNumber : {<<j>> : j \in Jerseys}]

PlainTeamBodies == [name : {<<"n1">>}, players : {Undefined}]

\* Request bodies of the tournament updates of the clients below: the teams
\* and a status, inside or outside the enum.
TeamsStatusBodies ==
    [name : {Undefined}, teams : Opt(SeqsUpTo(TeamIds, MaxList)),
     maxTeams : {Undefined}, status : Opt({"ongoing", "cancelled"})]

\* Clients that create and delete players and teams and send updates to all
\* three stores; no tournament is ever created, so every tournament update is
\* addressed to an id that matches no record.
NextUpdates ==
    \/ \E body \in PlainPlayerBodies : CreatePlayerLookup(1, body)
    \/ CreatePlayerSave(1)
    \/ \E id \in PlayerIds, body \in PlayerUpdateBodies : UpdatePlayerLookup(1, id, body)
    \/ UpdatePlayerWrite(1)
    \/ \E id \in PlayerIds : DeletePlayer(id)
    \/ \E body \in PlainTeamBodies : CreateTeamValidate(1, body)
    \/ CreateTeamSave(1)
    \/ \E id \in TeamIds, body \in TeamUpdateBodies : UpdateTeamValidate(1, id, body)
    \/ UpdateTeamWrite(1)
    \/ \E id \in TeamIds : DeleteTeam(id)
    \/ \E id \in {GhostId}, body \in TeamsStatusBodies : UpdateTournamentValidate(1, id, body)
    \/ UpdateTournamentWrite(1)

SpecUpdates == Init /\ [][NextUpdates]_vars

----
\* Steps of a request in slot r, seen in a transition.

\* The first step let the request through to its write.
Passed(r, pc) == reqs[r].pc = "idle" /\ reqs'[r].pc = pc

\* A first step of handler op from slot r: it answered, or it let the request
\* through to pc.
FirstStep(r, op, pc) ==
    reqs[r].pc = "idle" /\ ((resp' # resp /\ resp'.op = op) \/ reqs'[r].pc = pc)

\* The ids and bodies the first step of a transition can have had: what it
\* put in the slot if it let the request through to pc, any if it answered.
StepIds(r, pc, ids) == IF reqs'[r].pc = pc THEN {reqs'[r].id} ELSE ids

StepBodies(r, pc, bodies) == IF reqs'[r].pc = pc THEN {reqs'[r].body} ELSE bodies

PlayerStored(id) == \E p \in players : p._id = id

TeamStored(id) == \E t \in teams : t._id = id

TournamentStored(id) == \E t \in tournaments : t._id = id

----
\* C1: under every interleaving of createPlayer and updatePlayer requests, whose
\* lookup and write are separate steps, no two stored players have the same
\* jerseyNumber.
C1_JerseyUnique ==
    \A p \in players : \A q \in players : p._id # q._id => p.jerseyNumber # q.jerseyNumber

\* Two players are stored and the unique index has just refused a write that
\* had passed its lookup.
C1_Witness ==
    /\ Cardinality(players) = 2
    /\ resp.op \in {"createPlayer", "updatePlayer"}
    /\ resp.error = "E11000 duplicate key error"

----
JerseyHeld(body) == \E p \in players : p.jerseyNumber = Val(body.jerseyNumber)

\* C2: createPlayer with the jerseyNumber of a stored player fails with 400, at
\* its lookup or at its save, and leaves the stored players as they were.
C2_DuplicateCreateFails ==
    [][\A r \in Slots :
          /\ FirstStep(r, "createPlayer", "createPlayer.save")
                => \A body \in StepBodies(r, "createPlayer.save", PlayerCreateBodies) :
                      JerseyHeld(body) /\ CreatePlayerLookup(r, body)
                          => /\ resp'.op = "createPlayer"
                             /\ resp'.status = 400
                             /\ resp'.error = "Jersey number already taken"
                             /\ reqs' = reqs
                             /\ players' = players
          /\ CreatePlayerSave(r) /\ JerseyHeld(reqs[r].body)
                => /\ resp'.op = "createPlayer"
                   /\ resp'.status = 400
                   /\ players' = players]_vars

C2_Witness ==
    /\ resp.op = "createPlayer"
    /\ resp.status = 400
    /\ resp.error = "Jersey number already taken"
    /\ players # {}

----
SomeUnresolved(list) ==
    Defined(list) /\ \E i \in 1..Len(Val(list)) : ~PlayerStored(Val(list)[i])

\* C3: createTeam with a players list of which some id resolves to no stored
\* player fails with 400 (invalid reference) and adds no team.
C3_UnresolvedPlayerRejected ==
    [][\A r \in Slots :
          FirstStep(r, "createTeam", "createTeam.save")
              => \A body \in StepBodies(r, "createTeam.save", TeamCreateBodies) :
                    SomeUnresolved(body.players) /\ CreateTeamValidate(r, body)
                        => /\ resp'.op = "createTeam"
                           /\ resp'.status = 400
                           /\ resp'.error = "One or more player IDs are invalid"
                           /\ reqs' = reqs
                           /\ teams' = teams]_vars

\* A createTeam was refused when no player had ever been stored, so that no id
\* of its list resolved; no team is stored.
C3_Witness ==
    /\ resp.op = "createTeam"
    /\ resp.status = 400
    /\ resp.error = "One or more player IDs are invalid"
    /\ nextPlayer = 0
    /\ teams = {}

----
AllResolve(list) ==
    Defined(list) /\ \A i \in 1..Len(Val(list)) : PlayerStored(Val(list)[i])

Repeats(list) ==
    Defined(list) /\ \E i, j \in 1..Len(Val(list)) : i # j /\ Val(list)[i] = Val(list)[j]

\* C4: createTeam and updateTeam with a players list whose ids all resolve and
\* of which one is repeated get through the check of the list, and the write
\* stores the list as supplied.
C4_DuplicatesPermitted ==
    [][\A r \in Slots :
          /\ FirstStep(r, "createTeam", "createTeam.save")
                => \A body \in StepBodies(r, "createTeam.save", TeamCreateBodies) :
                      AllResolve(body.players) /\ Repeats(body.players) /\ CreateTeamValidate(r, body)
                          => Passed(r, "createTeam.save")
          /\ FirstStep(r, "updateTeam", "updateTeam.write")
                => \A id \in StepIds(r, "updateTeam.write", TeamIds) :
                   \A body \in StepBodies(r, "updateTeam.write", TeamUpdateBodies) :
                      AllResolve(body.players) /\ Repeats(body.players) /\ UpdateTeamValidate(r, id, body)
                          => Passed(r, "updateTeam.write")
          /\ CreateTeamSave(r) /\ resp'.status = 201 /\ Defined(reqs[r].body.players)
                => \E t \in teams' \ teams : t.players = Val(reqs[r].body.players)
          /\ UpdateTeamWrite(r) /\ resp'.status = 200 /\ Defined(reqs[r].body.players)
                => \E t \in teams' : t._id = reqs[r].id /\ t.players = Val(reqs[r].body.players)]_vars

----
\* C5: a successful update changes only the fields its body provides.
C5_PartialUpdateKeepsFields ==
    [][\A r \in Slots :
          /\ UpdatePlayerWrite(r) /\ resp'.status = 200
                => \A old \in players : old._id = reqs[r].id
                      => \E new \in players' :
                            /\ new._id = old._id
                            /\ ~Defined(reqs[r].body.name) => new.name = old.name
                            /\ ~Defined(reqs[r].body.jerseyNumber) => new.jerseyNumber = old.jerseyNumber
                            /\ ~Defined(reqs[r].body.isAvailable) => new.isAvailable = old.isAvailable
          /\ UpdateTeamWrite(r) /\ resp'.status = 200
                => \A old \in teams : old._id = reqs[r].id
                      => \E new \in teams' :
                            /\ new._id = old._id
                            /\ ~Defined(reqs[r].body.name) => new.name = old.name
                            /\ ~Defined(reqs[r].body.players) => new.players = old.players
          /\ UpdateTournamentWrite(r) /\ resp'.status = 200
                => \A old \in tournaments : old._id = reqs[r].id
                      => \E new \in tournaments' :
                            /\ new._id = old._id
                            /\ ~Defined(reqs[r].body.name) => new.name = old.name
                            /\ ~Defined(reqs[r].body.teams) => new.teams = old.teams
                            /\ ~Defined(reqs[r].body.maxTeams) => new.maxTeams = old.maxTeams
                            /\ ~Defined(reqs[r].body.status) => new.status = old.status]_vars

----
\* The body's jerseyNumber is a non-zero number that a stored player has.
NonZeroJerseyHeld(body) ==
    /\ Defined(body.jerseyNumber)
    /\ Val(body.jerseyNumber) # 0
    /\ \E p \in players : p.jerseyNumber = Val(body.jerseyNumber)

\* The list is non-empty and the stored players (teams) among its ids are not
\* as many as its entries.
PlayersListRefused(list) ==
    /\ Defined(list)
    /\ Val(list) # <<>>
    /\ Cardinality({i \in Range(Val(list)) : PlayerStored(i)}) # Len(Val(list))

TeamsListRefused(list) ==
    /\ Defined(list)
    /\ Val(list) # <<>>
    /\ Cardinality({i \in Range(Val(list)) : TeamStored(i)}) # Len(Val(list))

\* C6 as claimed: every response to a PUT addressed to an id that matches no
\* stored record is 404, and the stores are unchanged.
C6_AbsentIdAlwaysNotFound ==
    [][\A r \in Slots :
          /\ reqs[r].pc = "idle" /\ reqs' = reqs /\ resp' # resp /\ resp'.op = "updatePlayer"
                => \A id \in StepIds(r, "updatePlayer.write", PlayerIds) :
                   \A body \in StepBodies(r, "updatePlayer.write", PlayerUpdateBodies) :
                      ~PlayerStored(id) /\ UpdatePlayerLookup(r, id, body)
                          => resp'.status = 404 /\ stores' = stores
          /\ UpdatePlayerWrite(r) /\ ~PlayerStored(reqs[r].id)
                => resp'.status = 404 /\ stores' = stores
          /\ reqs[r].pc = "idle" /\ reqs' = reqs /\ resp' # resp /\ resp'.op = "updateTeam"
                => \A id \in StepIds(r, "updateTeam.write", TeamIds) :
                   \A body \in StepBodies(r, "updateTeam.write", TeamUpdateBodies) :
                      ~TeamStored(id) /\ UpdateTeamValidate(r, id, body)
                          => resp'.status = 404 /\ stores' = stores
          /\ UpdateTeamWrite(r) /\ ~TeamStored(reqs[r].id)
                => resp'.status = 404 /\ stores' = stores
          /\ reqs[r].pc = "idle" /\ reqs' = reqs /\ resp' # resp /\ resp'.op = "updateTournament"
                => \A id \in StepIds(r, "updateTournament.write", TournamentIds) :
                   \A body \in StepBodies(r, "updateTournament.write", TeamsStatusBodies) :
                      ~TournamentStored(id) /\ UpdateTournamentValidate(r, id, body)
                          => resp'.status = 404 /\ stores' = stores
          /\ UpdateTournamentWrite(r) /\ ~TournamentStored(reqs[r].id)
                => resp'.status = 404 /\ stores' = stores]_vars

\* C6 as amended: a PUT addressed to an id that matches no stored record leaves
\* the stores unchanged; it fails with 400 at the handler's check when the
\* body's jerseyNumber is non-zero and held by a stored player, or its
\* non-empty players (teams) list does not resolve id for id, and with 400 at
\* the write when its status is outside the enum; otherwise it fails with 404.
C6_AbsentIdFails ==
    [][\A r \in Slots :
          /\ FirstStep(r, "updatePlayer", "updatePlayer.write")
                => \A id \in StepIds(r, "updatePlayer.write", PlayerIds) :
                   \A body \in StepBodies(r, "updatePlayer.write", PlayerUpdateBodies) :
                      ~PlayerStored(id) /\ UpdatePlayerLookup(r, id, body)
                          => /\ stores' = stores
                             /\ IF NonZeroJerseyHeld(body)
                                THEN resp'.op = "updatePlayer" /\ resp'.status = 400 /\ reqs' = reqs
                                ELSE Passed(r, "updatePlayer.write") /\ resp' = resp
          /\ UpdatePlayerWrite(r) /\ ~PlayerStored(reqs[r].id)
                => /\ stores' = stores
                   /\ resp'.op = "updatePlayer" /\ resp'.status = 404
          /\ FirstStep(r, "updateTeam", "updateTeam.write")
                => \A id \in StepIds(r, "updateTeam.write", TeamIds) :
                   \A body \in StepBodies(r, "updateTeam.write", TeamUpdateBodies) :
                      ~TeamStored(id) /\ UpdateTeamValidate(r, id, body)
                          => /\ stores' = stores
                             /\ IF PlayersListRefused(body.players)
                                THEN resp'.op = "updateTeam" /\ resp'.status = 400 /\ reqs' = reqs
                                ELSE Passed(r, "updateTeam.write") /\ resp' = resp
          /\ UpdateTeamWrite(r) /\ ~TeamStored(reqs[r].id)
                => /\ stores' = stores
                   /\ resp'.op = "updateTeam" /\ resp'.status = 404
          /\ FirstStep(r, "updateTournament", "updateTournament.write")
                => \A id \in StepIds(r, "updateTournament.write", TournamentIds) :
                   \A body \in StepBodies(r, "updateTournament.write", TeamsStatusBodies) :
                      ~TournamentStored(id) /\ UpdateTournamentValidate(r, id, body)
                          => /\ stores' = stores
                             /\ IF TeamsListRefused(body.teams)
                                THEN resp'.op = "updateTournament" /\ resp'.status = 400 /\ reqs' = reqs
                                ELSE Passed(r, "updateTournament.write") /\ resp' = resp
          /\ UpdateTournamentWrite(r) /\ ~TournamentStored(reqs[r].id)
                => /\ stores' = stores
                   /\ resp'.op = "updateTournament"
                   /\ resp'.status = IF Defined(reqs[r].body.status) /\ Val(reqs[r].body.status) \notin Statuses
                                     THEN 400 ELSE 404]_vars

\* A player update addressed to the id of a deleted player was answered 404
\* while another player is stored.
C6_Witness ==
    /\ resp.op = "updatePlayer"
    /\ resp.status = 404
    /\ players # {}
    /\ nextPlayer > Cardinality(players)

----
RECURSIVE StillResolving(_)
\* The ids of a list that resolve to a stored player, in the list's order.
StillResolving(ids) ==
    IF ids = <<>> THEN <<>>
    ELSE (IF PlayerStored(Head(ids)) THEN <<Head(ids)>> ELSE <<>>) \o StillResolving(Tail(ids))

\* C7: deletePlayer of a stored player succeeds, removes that player and leaves
\* every team as it was; getTeam of a stored team succeeds and its players are
\* the stored players of the entries that still resolve, in order.
C7_DeleteLeavesTeams ==
    [][/\ resp'.op = "deletePlayer"
            => \A id \in PlayerIds :
                  PlayerStored(id) /\ DeletePlayer(id)
                      => /\ resp'.status = 200
                         /\ teams' = teams
                         /\ players' = {p \in players : p._id # id}
       /\ resp'.op = "getTeam"
            => \A id \in TeamIds :
                  TeamStored(id) /\ GetTeam(id)
                      => /\ resp'.status = 200
                         /\ \A t \in teams : t._id = id
                               => LET got == resp'.doc[1].players
                                      ids == StillResolving(t.players)
                                  IN /\ Len(got) = Len(ids)
                                     /\ \A k \in 1..Len(ids) : got[k] \in players /\ got[k]._id = ids[k]]_vars

\* A getTeam answered with one player of a team whose stored list has two
\* entries: the other entry's player was deleted.
C7_Witness ==
    /\ resp.op = "getTeam"
    /\ resp.status = 200
    /\ \E t \in teams :
          /\ t._id = resp.doc[1]._id
          /\ Len(t.players) = 2
          /\ Len(resp.doc[1].players) = 1

----
\* C8 as claimed: every id of the teams list that createTournament or
\* updateTournament writes resolves to a stored team at the write.
C8_TeamsResolveAtWrite ==
    [][\A r \in Slots :
          /\ CreateTournamentSave(r) /\ resp'.status = 201
                => \A t \in tournaments' \ tournaments :
                      \A i \in 1..Len(t.teams) : TeamStored(t.teams[i])
          /\ UpdateTournamentWrite(r) /\ resp'.status = 200
                => \A t \in tournaments' : t._id = reqs[r].id
                      => \A i \in 1..Len(t.teams) : TeamStored(t.teams[i])]_vars

SuppliedTeams(body) == IF Defined(body.teams) THEN Val(body.teams) ELSE <<>>

\* C8 as amended: the teams list that createTournament or updateTournament
\* writes is the list of the request, and every id of it resolved to a stored
\* team when the handler checked it; a deleteTeam between the check and the
\* write leaves an id that no longer resolves in the written list.
C8_TeamsResolvedAtCheck ==
    [][\A r \in Slots :
          /\ Passed(r, "createTournament.save") \/ Passed(r, "updateTournament.write")
                => \A i \in 1..Len(SuppliedTeams(reqs'[r].body)) :
                      TeamStored(SuppliedTeams(reqs'[r].body)[i])
          /\ CreateTournamentSave(r) /\ resp'.status = 201
                => \E t \in tournaments' \ tournaments : t.teams = SuppliedTeams(reqs[r].body)
          /\ UpdateTournamentWrite(r) /\ resp'.status = 200
                => \E t \in tournaments' :
                      t._id = reqs[r].id /\ t.teams = SuppliedTeams(reqs[r].body)]_vars

\* A tournament was created with a team that no longer resolved at the save:
\* the populated response has fewer teams than the stored list.
C8_Witness ==
    /\ resp.op = "createTournament"
    /\ resp.status = 201
    /\ \E t \in tournaments :
          /\ t._id = resp.doc[1]._id
          /\ Len(resp.doc[1].teams) < Len(t.teams)

----
\* C9: updateTournament of a stored tournament with a status of the enum
\* succeeds and stores that status, whatever the status was; the status of a
\* stored tournament changes in no other step.
C9_AnyStatusTransition ==
    [][/\ \A r \in Slots :
             /\ UpdateTournamentWrite(r)
             /\ TournamentStored(reqs[r].id)
             /\ Defined(reqs[r].body.status)
             /\ Val(reqs[r].body.status) \in {"upcoming", "ongoing", "completed"}
             => /\ resp'.op = "updateTournament"
                /\ resp'.status = 200
                /\ \E u \in tournaments' :
                      u._id = reqs[r].id /\ u.status = Val(reqs[r].body.status)
       /\ \A t \in tournaments : \A u \in tournaments' :
             t._id = u._id /\ t.status # u.status
                 => \E r \in Slots : UpdateTournamentWrite(r) /\ reqs[r].id = t._id]_vars

\* A tournament was updated to completed, and an update of it to upcoming has
\* passed its check.
C9_Witness ==
    \E t \in tournaments :
       /\ t.status = "completed"
       /\ resp.op = "updateTournament"
       /\ resp.status = 200
       /\ resp.doc[1]._id = t._id
       /\ \E r \in Slots :
             /\ reqs[r].pc = "updateTournament.write"
             /\ reqs[r].id = t._id
             /\ reqs[r].body.status = <<"upcoming">>

----
\* C10: a tournament enters the store with status upcoming, whatever status the
\* body of the createTournament carries, and leaves upcoming only by a
\* successful updateTournament of it.
C10_CreatedUpcoming ==
    [][/\ \A u \in tournaments' : ~TournamentStored(u._id) => u.status = "upcoming"
       /\ \A r \in Slots :
             CreateTournamentSave(r) /\ resp'.status = 201
                 => /\ resp'.doc[1].status = "upcoming"
                    /\ \E u \in tournaments' \ tournaments : u._id = resp'.doc[1]._id
       /\ \A t \in tournaments : \A u \in tournaments' :
             t._id = u._id /\ t.status = "upcoming" /\ u.status # "upcoming"
                 => \E r \in Slots :
                       /\ UpdateTournamentWrite(r)
                       /\ reqs[r].id = t._id
                       /\ resp'.status = 200]_vars

\* A createTournament has just succeeded and its tournament is stored.
C10_Witness ==
    /\ resp.op = "createTournament"
    /\ resp.status = 201
    /\ \E t \in tournaments : t._id = resp.doc[1]._id /\ t.status = "upcoming"

====
